---- MODULE Spec2Model ----
(***************************************************************************)
(* Model of tools/rotate-video.py: the MP4 track-header matrix patcher     *)
(* (MP4Rotator), the backend selector (get_rotator_for_file) and the       *)
(* per-file driver (rotate_video / process_path).                          *)
(*                                                                         *)
(* Files are byte sequences (each byte a number 0..255); file offsets are  *)
(* 0-based as in the source, so byte at offset p is data[p + 1].           *)
(* Python integers are unbounded; the fixtures keep every 32-bit field     *)
(* that the code reads below 2^31 so that the arithmetic stays exact.      *)
(***************************************************************************)
EXTENDS Integers, Sequences, FiniteSets, TLC

VARIABLES
    input_file,   \* the source file on disk: [name, data, kind, tkhds]
    output_file,  \* the output path on disk: [exists, data, by]
    degrees,      \* the requested angle, a string as in main()
    ffmpeg,       \* what check_for_ffmpeg() answers on this host
    rotator,      \* class of the rotator built by get_rotator_for_file
    pc,           \* position of the job in process_path / rotate
    fh,           \* MP4Rotator's open file handle and the walk's local variables
    result,       \* what rotator.rotate(degrees) returned: "True", "False" or "none" so far
    printed,      \* what has been printed so far (message tags)
    path,         \* the argument of process_path: [isdir, entries], as it was at the start
    video_files,  \* process_path's list of the directory's video files
    idx,          \* position of the for loop in video_files (0: not entered)
    output_path,  \* the output path handed to rotate_video
    finished      \* the jobs process_path has reported, in order

\* the variables of process_path's loop over the files
loop_vars == <<path, video_files, idx, output_path, finished>>

vars == <<input_file, output_file, degrees, ffmpeg, rotator, pc, fh, result, printed,
          path, video_files, idx, output_path, finished>>

(***************************************************************************)
(* Bounds of the model.                                                    *)
(***************************************************************************)
MaxTraks == 2
MaxFiles == 2

(***************************************************************************)
(* Bytes, big-endian words and 4-character tags.                           *)
(***************************************************************************)
Min(a, b) == IF a < b THEN a ELSE b
Max(a, b) == IF a > b THEN a ELSE b

\* struct.pack('>I', n) for 0 <= n < 2^31
PackU32(n) == << (n \div 16777216) % 256, (n \div 65536) % 256, (n \div 256) % 256, n % 256 >>

\* struct.pack('>i', v): two's complement, big-endian
PackI32(v) ==
    IF v >= 0 THEN PackU32(v)
    ELSE LET m == -(v + 1)
             b == PackU32(m)
         IN << 255 - b[1], 255 - b[2], 255 - b[3], 255 - b[4] >>

\* struct.unpack('>I', data)[0]
UnpackU32(b) == b[1] * 16777216 + b[2] * 65536 + b[3] * 256 + b[4]

TagFtyp == << 102, 116, 121, 112 >>
TagMoov == << 109, 111, 111, 118 >>
TagTrak == << 116, 114, 97, 107 >>
TagTkhd == << 116, 107, 104, 100 >>
TagMvhd == << 109, 118, 104, 100 >>
TagMdia == << 109, 100, 105, 97 >>
TagMdat == << 109, 100, 97, 116 >>

Fill(n, b) == [i \in 1..n |-> b]

(***************************************************************************)
(* File handle primitives: read(n), write(bytes) at a position.            *)
(***************************************************************************)
\* file_handle.read(n) at offset pos: the bytes available, possibly fewer than n
ReadBytes(data, pos, n) ==
    IF pos >= Len(data) THEN << >>
    ELSE SubSeq(data, pos + 1, Min(pos + n, Len(data)))

\* file_handle.write(bytes) at offset pos: overwrites, extends past the end,
\* and zero-fills a gap left by a seek beyond the end
WriteBytes(data, pos, bytes) ==
    LET n == Max(Len(data), pos + Len(bytes))
    IN [i \in 1..n |->
          IF i > pos /\ i <= pos + Len(bytes) THEN bytes[i - pos]
          ELSE IF i <= Len(data) THEN data[i]
          ELSE 0]

(***************************************************************************)
(* Input files.  A box is a 4-byte big-endian size (header included), a    *)
(* 4-byte type tag and the content.  The track header content is the       *)
(* version+flags word, the fields before the matrix (48 bytes for version  *)
(* 0, 56 for version 1), the nine 32-bit matrix slots in the row-major     *)
(* order [a,b,u; c,d,v; x,y,w], and width and height.                      *)
(***************************************************************************)
Box(tag, content) == PackU32(8 + Len(content)) \o tag \o content

MatrixBytes(m) ==
    PackI32(m[1]) \o PackI32(m[2]) \o PackI32(m[3]) \o
    PackI32(m[4]) \o PackI32(m[5]) \o PackI32(m[6]) \o
    PackI32(m[7]) \o PackI32(m[8]) \o PackI32(m[9])

IdentityMatrix == << 65536, 0, 0,  0, 65536, 0,  0, 0, 65536 >>
JunkMatrix == << 19088743, 19088744, 19088745,  -19088746, 19088747, 19088748,
                 19088749, -19088750, 19088751 >>

TkhdContent(version, flags, m) ==
    PackU32(version * 16777216 + flags)
      \o Fill(IF version = 1 THEN 56 ELSE 48, 170)
      \o MatrixBytes(m)
      \o Fill(8, 187)

\* the version of the i-th trak of a fixture whose first trak has version v
TrakVersion(v, i) == (v + i - 1) % 2

TrakBox(version, flags, m, extras) ==
    Box(TagTrak, Box(TagTkhd, TkhdContent(version, flags, m))
                   \o (IF extras THEN Box(TagMdia, Fill(4, 204)) ELSE << >>))

RECURSIVE TrakBoxes(_, _, _, _, _, _)
TrakBoxes(i, n, v, flags, m, extras) ==
    IF i > n THEN << >>
    ELSE TrakBox(TrakVersion(v, i), flags, m, extras)
           \o TrakBoxes(i + 1, n, v, flags, m, extras)

FtypBox == Box(TagFtyp, Fill(8, 105))
MvhdBox == Box(TagMvhd, Fill(4, 153))

MoovBox(n, v, flags, m, extras) ==
    Box(TagMoov, (IF extras THEN MvhdBox ELSE << >>)
                   \o TrakBoxes(1, n, v, flags, m, extras))

\* offset of the i-th tkhd box of Container(n, v, flags, m, extras)
TkhdPos(i, v, flags, m, extras) ==
    Len(FtypBox) + 8 + (IF extras THEN Len(MvhdBox) ELSE 0)
      + Len(TrakBoxes(1, i - 1, v, flags, m, extras)) + 8

Container(n, v, flags, m, extras) ==
    [ kind  |-> IF n = 1 THEN "single" ELSE "multi",
      data  |-> FtypBox \o MoovBox(n, v, flags, m, extras)
                  \o (IF extras THEN Box(TagMdat, Fill(5, 221)) ELSE << >>),
      tkhds |-> [i \in 1..n |-> TkhdPos(i, v, flags, m, extras)] ]

\* the flag bits of the fixtures: none, and enabled | in movie | in preview
FlagValues == { 0, 7 }

WellFormedFiles ==
    { Container(n, v, flags, m, extras) :
        n \in 1..MaxTraks, v \in {0, 1}, flags \in FlagValues,
        m \in {IdentityMatrix, JunkMatrix}, extras \in BOOLEAN }

\* files the patcher rejects: no ftyp box first, or too short for a size field
RejectedFiles ==
    { [ kind |-> "noftyp", data |-> MoovBox(1, 0, 0, IdentityMatrix, FALSE),
        tkhds |-> << >> ],
      [ kind |-> "tiny", data |-> << 0, 0 >>, tkhds |-> << >> ] }

\* a box whose size field is written as given, whatever its content is
SizedBox(size, tag, content) == PackU32(size) \o tag \o content

\* one trak holding a version-0 tkhd with the identity matrix
PlainTkhd == Box(TagTkhd, TkhdContent(0, 0, IdentityMatrix))
PlainTrak == Box(TagTrak, PlainTkhd)

\* files with a size field of 0: the moov box, or the trak box inside it
SizeZeroFiles ==
    { [ kind |-> "size0", data |-> FtypBox \o SizedBox(0, TagMoov, PlainTrak),
        tkhds |-> << Len(FtypBox) + 16 >> ],
      [ kind |-> "size0", data |-> FtypBox \o Box(TagMoov, SizedBox(0, TagTrak, PlainTkhd)),
        tkhds |-> << Len(FtypBox) + 16 >> ] }

\* a file with a size field of 1: an mdat box with a 64-bit size, before moov
SizeOneFiles ==
    { [ kind |-> "size1",
        data |-> FtypBox
                   \o SizedBox(1, TagMdat, << 0, 0, 0, 0, 0, 0, 0, 20 >> \o Fill(4, 221))
                   \o Box(TagMoov, PlainTrak),
        tkhds |-> << Len(FtypBox) + 20 + 16 >> ] }

\* files with a box that declares more bytes than its parent has left:
\* the moov box at top level, the trak box inside moov, or a trak box that
\* runs over the end of its moov onto a tkhd box placed after the moov
OversizedFiles ==
    { [ kind |-> "oversized",
        data |-> FtypBox \o SizedBox(8 + Len(PlainTrak) + 50, TagMoov, PlainTrak),
        tkhds |-> << Len(FtypBox) + 16 >> ],
      [ kind |-> "oversized",
        data |-> FtypBox \o Box(TagMoov, SizedBox(200, TagTrak, PlainTkhd) \o MvhdBox),
        tkhds |-> << Len(FtypBox) + 16 >> ],
      [ kind |-> "oversized",
        data |-> FtypBox
                   \o Box(TagMoov, SizedBox(8 + 2 * Len(PlainTkhd), TagTrak, PlainTkhd))
                   \o PlainTkhd,
        tkhds |-> << Len(FtypBox) + 16 >> ] }

\* a tkhd box of 20 bytes: too short to hold a matrix
ShortTkhd == Box(TagTkhd, PackU32(0) \o Fill(8, 170))

\* files whose tkhd is too short: with an mdat box after the moov, or with
\* the tkhd as the last bytes of the file
ShortTkhdFiles ==
    { [ kind |-> "shorttkhd",
        data |-> FtypBox \o Box(TagMoov, Box(TagTrak, ShortTkhd) \o MvhdBox)
                         \o Box(TagMdat, Fill(64, 221)),
        tkhds |-> << Len(FtypBox) + 16 >> ],
      [ kind |-> "shorttkhd",
        data |-> FtypBox \o Box(TagMoov, Box(TagTrak, ShortTkhd)),
        tkhds |-> << Len(FtypBox) + 16 >> ] }

\* files that end inside a box header: three bytes after the last top-level
\* box, or three bytes after the last child of moov
TruncatedFiles ==
    { [ kind |-> "truncated",
        data |-> FtypBox \o Box(TagMoov, PlainTrak) \o << 0, 0, 0 >>,
        tkhds |-> << Len(FtypBox) + 16 >> ],
      [ kind |-> "truncated",
        data |-> FtypBox \o Box(TagMoov, PlainTrak \o << 0, 0, 0 >>),
        tkhds |-> << Len(FtypBox) + 16 >> ] }

\* files that start with ftyp and hold no tkhd: no moov, no trak, a trak without tkhd
TracklessFiles ==
    { [ kind |-> "trackless", data |-> FtypBox \o Box(TagMdat, Fill(5, 221)),
        tkhds |-> << >> ],
      [ kind |-> "trackless", data |-> FtypBox \o Box(TagMoov, MvhdBox),
        tkhds |-> << >> ],
      [ kind |-> "trackless",
        data |-> FtypBox \o Box(TagMoov, Box(TagTrak, Box(TagMdia, Fill(4, 204)))),
        tkhds |-> << >> ] }

MalformedFiles ==
    SizeZeroFiles \cup SizeOneFiles \cup OversizedFiles \cup TruncatedFiles \cup TracklessFiles
        \cup ShortTkhdFiles

Fixtures == WellFormedFiles \cup RejectedFiles \cup MalformedFiles

\* file names, as character codes: a.mp4  b.MOV  c.m4v  d.mkv  e.txt  f.mp4.avi
NameMp4 == << 97, 46, 109, 112, 52 >>
NameMOV == << 98, 46, 77, 79, 86 >>
NameM4v == << 99, 46, 109, 52, 118 >>
NameMkv == << 100, 46, 109, 107, 118 >>
NameTxt == << 101, 46, 116, 120, 116 >>
NameMp4Avi == << 102, 46, 109, 112, 52, 46, 97, 118, 105 >>
FileNames == { NameMp4, NameMOV, NameM4v, NameMkv, NameTxt, NameMp4Avi }

Angles == { "0", "90", "180", "270", "45" }

(***************************************************************************)
(* MP4Rotator: the walk over the boxes of the output copy.                 *)
(* A walk state s holds the handle's view of the file (data), the handle   *)
(* position (pos), the local variables of the three nested loops, where    *)
(* the walk resumes (at) and a record of what was written and raised.      *)
(*   at = "ftyp" | "top" | "moov" | "trak" | "tkhd" : next piece to run    *)
(*   at = "ret"   : _process_atoms has returned                            *)
(*   at = "raise" : an exception left _process_atoms                       *)
(***************************************************************************)
ROTATION_MATRICES ==
    [ d \in {"90", "180", "270"} |->
        CASE d = "90"  -> << 0, 1, -1, 0 >>
          [] d = "180" -> << -1, 0, 0, -1 >>
          [] d = "270" -> << 0, -1, 1, 0 >> ]

OpenHandle(data) ==
    [ data |-> data, pos |-> 0, at |-> "ftyp",
      top_pos |-> 0, top_size |-> 0,
      moov_end |-> 0, moov_atom_pos |-> 0, moov_atom_size |-> 0,
      trak_end |-> 0, trak_atom_pos |-> 0, trak_atom_size |-> 0,
      wrote |-> << >>, calls |-> << >>, errors |-> << >> ]

ClosedHandle == [ OpenHandle(<< >>) EXCEPT !.at = "closed" ]

\* an exception raised inside the top-level loop body is caught there:
\* it is printed and the loop is left, so _process_atoms returns normally
CaughtInLoop(s, e) == [ s EXCEPT !.at = "ret", !.errors = Append(@, e) ]

\* an exception raised before the loop leaves _process_atoms
Raised(s, e) == [ s EXCEPT !.at = "raise", !.errors = Append(@, e) ]

\* the tail of one iteration of the top-level loop: seek to the next atom
TopTail(s) ==
    [ s EXCEPT !.pos = s.top_pos + s.top_size, !.at = "top" ]

\* variant: the moov loop is left after its first child
MoovTail_LeaveAfterFirst(s) == TopTail(s)

\* the tail of one iteration of the moov loop; leaving the loop returns to
\* the top-level iteration that called _process_moov_atom
MoovTail(s) ==
    LET next_pos == s.moov_atom_pos + s.moov_atom_size
    IN IF next_pos >= s.moov_end THEN TopTail(s)
       ELSE [ s EXCEPT !.pos = next_pos, !.at = "moov" ]

\* the tail of one iteration of the trak loop; leaving the loop returns to
\* the moov iteration that called _process_trak_atom
TrakTail(s) ==
    LET next_pos == s.trak_atom_pos + s.trak_atom_size
    IN IF next_pos >= s.trak_end THEN MoovTail(s)
       ELSE [ s EXCEPT !.pos = next_pos, !.at = "trak" ]

\* variant: the type of the first box is not looked at
ProcessFtyp_AnyFirstBox(s) ==
    LET size_bytes == ReadBytes(s.data, 0, 4)
    IN IF Len(size_bytes) < 4 THEN Raised(s, "EOFError")
       ELSE [ s EXCEPT !.pos = UnpackU32(size_bytes), !.at = "top" ]

\* _process_atoms up to its loop: the file must start with an ftyp box
ProcessFtyp(s) ==
    LET size_bytes == ReadBytes(s.data, 0, 4)
        file_type  == ReadBytes(s.data, 4, 4)
    IN IF Len(size_bytes) < 4 THEN Raised(s, "EOFError")
       ELSE IF file_type # TagFtyp THEN Raised(s, "ValueError: missing ftyp")
       ELSE [ s EXCEPT !.pos = UnpackU32(size_bytes), !.at = "top" ]

\* one iteration of the top-level loop of _process_atoms
TopLoop(s) ==
    LET pos        == s.pos
        size_bytes == ReadBytes(s.data, pos, 4)
        atom_type  == ReadBytes(s.data, pos + 4, 4)
    IN IF pos >= Len(s.data) THEN [ s EXCEPT !.at = "ret" ]
       ELSE IF Len(size_bytes) < 4 THEN CaughtInLoop(s, "EOFError")
       ELSE LET atom_size == UnpackU32(size_bytes)
                t == [ s EXCEPT !.top_pos = pos, !.top_size = atom_size ]
            IN IF atom_type = TagMoov
               THEN [ t EXCEPT !.moov_end = (pos + 8) + (atom_size - 8),
                               !.pos = pos + 8, !.at = "moov" ]
               ELSE TopTail(t)

\* one iteration of the loop of _process_moov_atom
MoovLoop(s) ==
    LET atom_pos   == s.pos
        size_bytes == ReadBytes(s.data, atom_pos, 4)
        atom_type  == ReadBytes(s.data, atom_pos + 4, 4)
    IN IF ~(s.pos < s.moov_end) THEN TopTail(s)
       ELSE IF Len(size_bytes) < 4 THEN CaughtInLoop(s, "EOFError")
       ELSE LET atom_size == UnpackU32(size_bytes)
                t == [ s EXCEPT !.moov_atom_pos = atom_pos, !.moov_atom_size = atom_size ]
            IN IF atom_type = TagTrak
               THEN [ t EXCEPT !.trak_end = (atom_pos + 8) + (atom_size - 8),
                               !.pos = atom_pos + 8, !.at = "trak" ]
               ELSE MoovTail(t)

\* one iteration of the loop of _process_trak_atom
TrakLoop(s) ==
    LET atom_pos   == s.pos
        size_bytes == ReadBytes(s.data, atom_pos, 4)
        atom_type  == ReadBytes(s.data, atom_pos + 4, 4)
    IN IF ~(s.pos < s.trak_end) THEN MoovTail(s)
       ELSE IF Len(size_bytes) < 4 THEN CaughtInLoop(s, "EOFError")
       ELSE LET atom_size == UnpackU32(size_bytes)
                t == [ s EXCEPT !.trak_atom_pos = atom_pos, !.trak_atom_size = atom_size ]
            IN IF atom_type = TagTkhd
               THEN [ t EXCEPT !.pos = atom_pos + 8, !.at = "tkhd" ]
               ELSE TrakTail(t)

\* variant: the version taken from the low byte of the word
TkhdVersion_LowByte(version_flags) == version_flags % 256

\* version = (version_flags >> 24) & 0xFF
TkhdVersion(version_flags) == (version_flags \div 16777216) % 256

\* matrix_offset = 60 if version == 1 else 52
MatrixOffset(version) == IF version = 1 THEN 60 ELSE 52

\* fixed_point = int(value * 65536)
FixedPoint(value) == value * 65536

\* the bytes the first write loop emits: the four table values, one after another
RotationBytes(rotation_values) ==
    PackI32(FixedPoint(rotation_values[1])) \o PackI32(FixedPoint(rotation_values[2])) \o
    PackI32(FixedPoint(rotation_values[3])) \o PackI32(FixedPoint(rotation_values[4]))

\* the bytes of the three writes after the skipped word
TailBytes == PackI32(0) \o PackI32(0) \o PackI32(65536)

\* variant: three words skipped instead of one
SkipAfterRotation_ThreeWords(pos) == pos + 12

\* the skip between the two groups of writes: file_handle.seek(4, os.SEEK_CUR)
SkipAfterRotation(pos) == pos + 4

\* variant: the requested rotation is multiplied into the four words found at
\* the matrix position instead of replacing them
SignedWord(b) ==
    IF b[1] < 128 THEN UnpackU32(b)
    ELSE -(UnpackU32(<< 255 - b[1], 255 - b[2], 255 - b[3], 255 - b[4] >>) + 1)

ModifyTkhd_Multiply(s, deg) ==
    LET atom_pos  == s.trak_atom_pos
        vf_bytes  == ReadBytes(s.data, atom_pos + 8, 4)
    IN IF Len(vf_bytes) < 4 THEN CaughtInLoop(s, "EOFError")
       ELSE LET matrix_pos == atom_pos + 8 + MatrixOffset(TkhdVersion(UnpackU32(vf_bytes)))
                old == [ k \in 1..4 |->
                           SignedWord(ReadBytes(s.data, matrix_pos + 4 * (k - 1), 4)) ]
            IN IF deg \notin DOMAIN ROTATION_MATRICES
               THEN CaughtInLoop([ s EXCEPT !.pos = matrix_pos ],
                                 "ValueError: unsupported angle")
               ELSE IF Len(ReadBytes(s.data, matrix_pos, 16)) < 16
               THEN CaughtInLoop([ s EXCEPT !.pos = matrix_pos ], "EOFError")
               ELSE LET r     == ROTATION_MATRICES[deg]
                        first == PackI32(old[1] * r[1] + old[2] * r[3]) \o
                                 PackI32(old[1] * r[2] + old[2] * r[4]) \o
                                 PackI32(old[3] * r[1] + old[4] * r[3]) \o
                                 PackI32(old[3] * r[2] + old[4] * r[4])
                        tail_pos == SkipAfterRotation(matrix_pos + Len(first))
                        d2 == WriteBytes(WriteBytes(s.data, matrix_pos, first),
                                         tail_pos, TailBytes)
                    IN TrakTail([ s EXCEPT !.data = d2,
                                           !.pos = tail_pos + Len(TailBytes) ])

\* _modify_tkhd_atom, then the rest of the trak iteration that called it
ModifyTkhd(s, deg) ==
    LET atom_pos  == s.trak_atom_pos
        vf_bytes  == ReadBytes(s.data, atom_pos + 8, 4)
    IN IF Len(vf_bytes) < 4 THEN CaughtInLoop(s, "EOFError")
       ELSE LET version_flags == UnpackU32(vf_bytes)
                version       == TkhdVersion(version_flags)
                matrix_pos    == atom_pos + 8 + MatrixOffset(version)
            IN IF deg \notin DOMAIN ROTATION_MATRICES
               THEN CaughtInLoop([ s EXCEPT !.pos = matrix_pos ],
                                 "ValueError: unsupported angle")
               ELSE LET first    == RotationBytes(ROTATION_MATRICES[deg])
                        tail_pos == SkipAfterRotation(matrix_pos + Len(first))
                        d1       == WriteBytes(s.data, matrix_pos, first)
                        d2       == WriteBytes(d1, tail_pos, TailBytes)
                        offs     == [ i \in 1..(Len(first) + Len(TailBytes)) |->
                                        IF i <= Len(first) THEN matrix_pos + i - 1
                                        ELSE tail_pos + (i - Len(first)) - 1 ]
                    IN TrakTail([ s EXCEPT
                          !.data  = d2,
                          !.pos   = tail_pos + Len(TailBytes),
                          !.calls = Append(@, [ atom_pos |-> atom_pos,
                                                first |-> Len(s.wrote) + 1 ]),
                          !.wrote = @ \o offs ])

\* one piece of the walk, chosen by where it resumes
WalkStep(s, deg) ==
    CASE s.at = "ftyp" -> ProcessFtyp(s)
      [] s.at = "top"  -> TopLoop(s)
      [] s.at = "moov" -> MoovLoop(s)
      [] s.at = "trak" -> TrakLoop(s)
      [] s.at = "tkhd" -> ModifyTkhd(s, deg)
      [] OTHER -> s

\* the whole of _process_atoms on a file: the walk state when it returns or raises
RECURSIVE RunWalk(_, _, _)
RunWalk(s, deg, fuel) ==
    IF s.at \in {"ret", "raise"} \/ fuel = 0 THEN s
    ELSE RunWalk(WalkStep(s, deg), deg, fuel - 1)

\* the bytes MP4Rotator.rotate leaves in the output for an input it accepts
Patched(data, deg) == RunWalk(OpenHandle(data), deg, 4 * Len(data) + 8).data

(***************************************************************************)
(* File names and the backend selector.                                    *)
(***************************************************************************)
\* str.lower() on one character code
Lower(c) == IF c \in 65..90 THEN c + 32 ELSE c

LowerStr(str) == [ i \in 1..Len(str) |-> Lower(str[i]) ]

\* Path(name).suffix: from the last dot on, unless that dot starts or ends the name
Suffix(name) ==
    LET dots == { i \in 1..Len(name) : name[i] = 46 }
    IN IF dots = {} THEN << >>
       ELSE LET last == CHOOSE i \in dots : \A j \in dots : j <= i
            IN IF last > 1 /\ last < Len(name) THEN SubSeq(name, last, Len(name))
               ELSE << >>

\* supported_formats of is_video_file
SupportedFormats ==
    { << 46, 109, 112, 52 >>, << 46, 109, 111, 118 >>, << 46, 109, 52, 118 >>,
      << 46, 97, 118, 105 >>, << 46, 100, 105, 118, 120 >>, << 46, 119, 109, 118 >>,
      << 46, 109, 107, 118 >>, << 46, 119, 101, 98, 109 >>, << 46, 102, 108, 118 >>,
      << 46, 102, 52, 118 >>, << 46, 51, 103, 112 >>, << 46, 51, 103, 50 >>,
      << 46, 116, 115 >>, << 46, 109, 116, 115 >>, << 46, 109, 50, 116, 115 >> }

\* variant: .m4v left out of the set
MetadataFormats_NoM4v == { << 46, 109, 112, 52 >>, << 46, 109, 111, 118 >> }

\* the extensions get_rotator_for_file hands to MP4Rotator: .mp4 .mov .m4v
MetadataFormats == { << 46, 109, 112, 52 >>, << 46, 109, 111, 118 >>, << 46, 109, 52, 118 >> }

is_video_file(filename) == LowerStr(Suffix(filename)) \in SupportedFormats

\* variant: the suffix compared as written, without .lower()
get_rotator_for_file_CaseSensitive(has_ffmpeg, name) ==
    IF has_ffmpeg THEN "FFMpegRotator"
    ELSE IF Suffix(name) \in MetadataFormats THEN "MP4Rotator"
    ELSE "CopyRotator"

get_rotator_for_file(has_ffmpeg, name) ==
    IF has_ffmpeg THEN "FFMpegRotator"
    ELSE IF LowerStr(Suffix(name)) \in MetadataFormats THEN "MP4Rotator"
    ELSE "CopyRotator"

\* what get_rotator_for_file prints on the way
SelectorMessages(has_ffmpeg, name) ==
    IF has_ffmpeg THEN << >>
    ELSE IF LowerStr(Suffix(name)) \in MetadataFormats THEN << "Note: Using metadata rotation" >>
    ELSE << "Warning: Cannot rotate without FFmpeg" >>

(***************************************************************************)
(* The job: process_path on one file, rotate_video, and the three rotators *)
(***************************************************************************)
NoFile == [ exists |-> FALSE, data |-> << >>, by |-> "none" ]

\* variant: the copy creates the file and transfers no byte
Copied_Empty(src) == [ exists |-> TRUE, data |-> << >>, by |-> "copy2" ]

\* shutil.copy2 that completed
Copied(src) == [ exists |-> TRUE, data |-> src.data, by |-> "copy2" ]

\* what shutil.copy2 can leave behind when it raises: nothing, or a prefix
CopyLeftovers(src) ==
    { NoFile,
      [ exists |-> TRUE, data |-> SubSeq(src.data, 1, Len(src.data) \div 2), by |-> "copy2" ] }

\* what the ffmpeg process can leave behind when it does not finish the encode
EncodeLeftovers == { NoFile, [ exists |-> TRUE, data |-> << >>, by |-> "ffmpeg-partial" ] }

\* os.remove(self.output_file) under if os.path.exists(self.output_file)
RemoveIfExists(file) == NoFile

\* a path is the sequence of its components, each a sequence of character codes
BaseDir == << << 118 >> >>

\* "Rotated" and "rotated_"
DirRotated == << 82, 111, 116, 97, 116, 101, 100 >>
RotatedPrefix == << 114, 111, 116, 97, 116, 101, 100, 95 >>

\* os.path.join(base, name), os.path.dirname(p), os.path.basename(p)
PathJoin(base, name) == Append(base, name)
DirName(p) == SubSeq(p, 1, Len(p) - 1)
BaseName(p) == p[Len(p)]

\* create_rotated_directory: the path it returns
create_rotated_directory(base_dir) == PathJoin(base_dir, DirRotated)

\* variant: the file name is left out of the output name
OutputPath_PrefixOnly(rotated_dir, filename) == PathJoin(rotated_dir, RotatedPrefix)

\* os.path.join(rotated_dir, f"rotated_{filename}")
OutputPath(rotated_dir, filename) == PathJoin(rotated_dir, RotatedPrefix \o filename)

\* variant: the patcher opens the input file
WrittenFile_Input == "input_file"

\* the file the patcher opens 'r+b' and writes through
WrittenFile == "output_file"

\* no input file chosen yet
NoInput == [ name |-> << >>, data |-> << >>, kind |-> "none", tkhds |-> << >> ]

AsFile(n, f) == [ name |-> n, data |-> f.data, kind |-> f.kind, tkhds |-> f.tkhds ]

\* the files a directory of the model can hold
DirNames == { NameMp4, NameMkv, NameTxt }
DirFixtures ==
    { f \in Fixtures :
        \/ f = Container(1, 0, 0, IdentityMatrix, FALSE)
        \/ f.kind = "noftyp"
        \/ f.kind = "size0" /\ SubSeq(f.data, Len(FtypBox) + 1, Len(FtypBox) + 4) = PackU32(0) }
DirAngles == { "90", "45" }

\* os.listdir(path): up to MaxFiles entries with distinct names, in any order
RECURSIVE Listings(_)
Listings(n) ==
    IF n = 0 THEN { << >> }
    ELSE Listings(n - 1) \cup
         { Append(l, AsFile(nm, f)) :
             l \in { m \in Listings(n - 1) : Len(m) = n - 1 },
             nm \in DirNames, f \in DirFixtures }

DistinctNames(l) == \A a, b \in 1..Len(l) : a # b => l[a].name # l[b].name

DirListings == { l \in Listings(MaxFiles) : DistinctNames(l) }

\* [f for f in os.listdir(path) if is_video_file(os.path.join(path, f))]
RECURSIVE VideoFilesOf(_)
VideoFilesOf(l) ==
    IF l = << >> THEN << >>
    ELSE IF is_video_file(Head(l).name) THEN << Head(l) >> \o VideoFilesOf(Tail(l))
    ELSE VideoFilesOf(Tail(l))

\* process_path called on a single file
InitFile ==
    /\ path \in { [ isdir |-> FALSE, entries |-> << AsFile(n, f) >> ] :
                    n \in FileNames, f \in Fixtures }
    /\ input_file = path.entries[1]
    /\ degrees \in Angles

\* process_path called on a directory
InitDir ==
    /\ path \in { [ isdir |-> TRUE, entries |-> l ] : l \in DirListings }
    /\ input_file = NoInput
    /\ degrees \in DirAngles

Init ==
    /\ (InitFile \/ InitDir)
    /\ output_file = NoFile
    /\ ffmpeg \in BOOLEAN
    /\ rotator = "none"
    /\ pc = "start"
    /\ fh = ClosedHandle
    /\ result = "none"
    /\ printed = << >>
    /\ video_files = << >>
    /\ idx = 0
    /\ output_path = << >>
    /\ finished = << >>

\* process_path, single-file branch, up to the call of rotate_video
ProcessPath ==
    /\ pc = "start" /\ ~path.isdir
    /\ IF is_video_file(BaseName(PathJoin(BaseDir, input_file.name)))
       THEN /\ pc' = "probe"
            /\ printed' = printed
            /\ video_files' = << input_file >>
            /\ idx' = 1
            /\ output_path' = OutputPath(
                   create_rotated_directory(DirName(PathJoin(BaseDir, input_file.name))),
                   BaseName(PathJoin(BaseDir, input_file.name)))
       ELSE /\ pc' = "done"
            /\ printed' = Append(printed, "Error: not a supported video file")
            /\ UNCHANGED << video_files, idx, output_path >>
    /\ UNCHANGED << path, finished >>
    /\ UNCHANGED << input_file, output_file, degrees, ffmpeg, rotator, fh, result >>

\* process_path, directory branch, up to the first call of rotate_video
ProcessDir ==
    /\ pc = "start" /\ path.isdir
    /\ video_files' = VideoFilesOf(path.entries)
    /\ IF video_files' = << >>
       THEN /\ pc' = "done"
            /\ printed' = Append(printed, "No supported video files found")
            /\ UNCHANGED << input_file, idx, output_path >>
       ELSE /\ pc' = "probe"
            /\ printed' = Append(printed, "Found video files to process")
            /\ idx' = 1
            /\ input_file' = video_files'[1]
            /\ output_path' = OutputPath(create_rotated_directory(BaseDir),
                                         video_files'[1].name)
    /\ UNCHANGED << path, finished >>
    /\ UNCHANGED << output_file, degrees, ffmpeg, rotator, fh, result >>

\* get_rotator_for_file: the call of check_for_ffmpeg(), which runs
\* 'ffmpeg -version' and answers whether the program could be started
CheckForFFmpeg ==
    /\ pc = "probe"
    /\ pc' = "select"
    /\ UNCHANGED loop_vars
    /\ UNCHANGED << input_file, output_file, degrees, ffmpeg, rotator, fh, result, printed >>

\* rotate_video: rotator = get_rotator_for_file(input_file, output_file)
GetRotator ==
    /\ pc = "select"
    /\ rotator' = get_rotator_for_file(ffmpeg, input_file.name)
    /\ printed' = printed \o SelectorMessages(ffmpeg, input_file.name)
    /\ pc' = "rotate"
    /\ UNCHANGED loop_vars
    /\ UNCHANGED << input_file, output_file, degrees, ffmpeg, fh, result >>

\* MP4Rotator.rotate: copy2 succeeds and the copy is opened 'r+b'
MP4Copy ==
    /\ pc = "rotate" /\ rotator = "MP4Rotator"
    /\ output_file' = Copied(input_file)
    /\ fh' = OpenHandle(input_file.data)
    /\ pc' = "walk"
    /\ UNCHANGED loop_vars
    /\ UNCHANGED << input_file, degrees, ffmpeg, rotator, result, printed >>

\* MP4Rotator.rotate: copy2 raises
MP4CopyFails ==
    /\ pc = "rotate" /\ rotator = "MP4Rotator"
    /\ output_file' \in CopyLeftovers(input_file)
    /\ fh' = Raised(ClosedHandle, "OSError")
    /\ pc' = "walk"
    /\ UNCHANGED loop_vars
    /\ UNCHANGED << input_file, degrees, ffmpeg, rotator, result, printed >>

\* one piece of _process_atoms on the open copy; writes reach the output file,
\* and what the loop's except branch prints reaches the terminal
Walked ==
    /\ fh' = WalkStep(fh, degrees)
    /\ IF WrittenFile = "output_file"
       THEN /\ output_file' = [ output_file EXCEPT !.data = fh'.data ]
            /\ input_file' = input_file
       ELSE /\ input_file' = [ input_file EXCEPT !.data = fh'.data ]
            /\ output_file' = output_file
    /\ printed' = printed \o SubSeq(fh'.errors, Len(fh.errors) + 1,
                                    IF fh'.at = "ret" THEN Len(fh'.errors) ELSE Len(fh.errors))
    /\ UNCHANGED loop_vars
    /\ UNCHANGED << degrees, ffmpeg, rotator, pc, result >>

\* _process_atoms: the ftyp check and the seek past the ftyp box
MP4Ftyp ==
    /\ pc = "walk" /\ fh.at = "ftyp"
    /\ Walked

\* _process_atoms: one iteration of the top-level loop
MP4Top ==
    /\ pc = "walk" /\ fh.at = "top"
    /\ Walked

\* _process_moov_atom: one iteration of its loop
MP4Moov ==
    /\ pc = "walk" /\ fh.at = "moov"
    /\ Walked

\* _process_trak_atom: one iteration of its loop
MP4Trak ==
    /\ pc = "walk" /\ fh.at = "trak"
    /\ Walked

\* _modify_tkhd_atom
MP4Tkhd ==
    /\ pc = "walk" /\ fh.at = "tkhd"
    /\ Walked

\* MP4Rotator.rotate: _process_atoms returned, the file is closed, return True
MP4Return ==
    /\ pc = "walk" /\ fh.at = "ret"
    /\ fh' = [ fh EXCEPT !.at = "closed" ]
    /\ result' = "True"
    /\ printed' = Append(printed, "Successfully rotated (rotator)")
    /\ pc' = "report"
    /\ UNCHANGED loop_vars
    /\ UNCHANGED << input_file, output_file, degrees, ffmpeg, rotator >>

\* variant: after the patcher failed the copy backend is selected and run
MP4Except_FallsBackToCopy ==
    /\ pc = "walk" /\ fh.at = "raise"
    /\ fh' = [ fh EXCEPT !.at = "closed" ]
    /\ output_file' = RemoveIfExists(output_file)
    /\ rotator' = "CopyRotator"
    /\ printed' = Append(printed, "Error rotating video")
    /\ pc' = "rotate"
    /\ UNCHANGED loop_vars
    /\ UNCHANGED << input_file, degrees, ffmpeg, result >>

\* MP4Rotator.rotate: the except branch
MP4Except ==
    /\ pc = "walk" /\ fh.at = "raise"
    /\ fh' = [ fh EXCEPT !.at = "closed" ]
    /\ output_file' = RemoveIfExists(output_file)
    /\ result' = "False"
    /\ printed' = Append(printed, "Error rotating video")
    /\ pc' = "report"
    /\ UNCHANGED loop_vars
    /\ UNCHANGED << input_file, degrees, ffmpeg, rotator >>

\* the angles FFMpegRotator.rotate builds a filter for: "180" and TRANSPOSE_VALUES
FFMpegAngles == { "180", "90", "270" }

\* FFMpegRotator.rotate: no filter for the angle
FFMpegUnsupported ==
    /\ pc = "rotate" /\ rotator = "FFMpegRotator"
    /\ degrees \notin FFMpegAngles
    /\ result' = "False"
    /\ printed' = Append(printed, "Error: Unsupported rotation angle")
    /\ pc' = "report"
    /\ UNCHANGED loop_vars
    /\ UNCHANGED << input_file, output_file, degrees, ffmpeg, rotator, fh >>

\* FFMpegRotator.rotate: ffmpeg exits 0
FFMpegSucceeds ==
    /\ pc = "rotate" /\ rotator = "FFMpegRotator"
    /\ degrees \in FFMpegAngles
    /\ output_file' = [ exists |-> TRUE, data |-> << >>, by |-> "ffmpeg" ]
    /\ result' = "True"
    /\ printed' = Append(printed, "Successfully rotated (rotator)")
    /\ pc' = "report"
    /\ UNCHANGED loop_vars
    /\ UNCHANGED << input_file, degrees, ffmpeg, rotator, fh >>

\* what FFMpegRotator.rotate does with the output when ffmpeg exits non-zero
AfterFFmpegError(file) == file

\* FFMpegRotator.rotate: ffmpeg exits with a non-zero return code
FFMpegFails ==
    /\ pc = "rotate" /\ rotator = "FFMpegRotator"
    /\ degrees \in FFMpegAngles
    /\ \E left \in EncodeLeftovers : output_file' = AfterFFmpegError(left)
    /\ result' = "False"
    /\ printed' = Append(printed, "FFmpeg error")
    /\ pc' = "report"
    /\ UNCHANGED loop_vars
    /\ UNCHANGED << input_file, degrees, ffmpeg, rotator, fh >>

\* FFMpegRotator.rotate: subprocess.run raises
FFMpegRaises ==
    /\ pc = "rotate" /\ rotator = "FFMpegRotator"
    /\ degrees \in FFMpegAngles
    /\ \E left \in EncodeLeftovers : output_file' = RemoveIfExists(left)
    /\ result' = "False"
    /\ printed' = Append(printed, "Error rotating video with FFmpeg")
    /\ pc' = "report"
    /\ UNCHANGED loop_vars
    /\ UNCHANGED << input_file, degrees, ffmpeg, rotator, fh >>

\* CopyRotator.rotate: copy2 succeeds
CopyRotate ==
    /\ pc = "rotate" /\ rotator = "CopyRotator"
    /\ output_file' = Copied(input_file)
    /\ result' = "True"
    /\ printed' = Append(printed, "Note: copied but not rotated")
    /\ pc' = "report"
    /\ UNCHANGED loop_vars
    /\ UNCHANGED << input_file, degrees, ffmpeg, rotator, fh >>

\* CopyRotator.rotate: copy2 raises
CopyRotateFails ==
    /\ pc = "rotate" /\ rotator = "CopyRotator"
    /\ \E left \in CopyLeftovers(input_file) : output_file' = RemoveIfExists(left)
    /\ result' = "False"
    /\ printed' = Append(printed, "Error copying video")
    /\ pc' = "report"
    /\ UNCHANGED loop_vars
    /\ UNCHANGED << input_file, degrees, ffmpeg, rotator, fh >>

\* process_path: the report after rotate_video returned, in either branch
Report ==
    /\ pc = "report"
    /\ printed' = Append(printed, IF result = "True" THEN "Successfully rotated"
                                  ELSE "Failed to rotate")
    /\ finished' = Append(finished, [ input |-> input_file, output |-> output_file,
                                      output_path |-> output_path, result |-> result,
                                      printed |-> Len(printed) + 1 ])
    /\ pc' = IF path.isdir /\ idx < Len(video_files) THEN "next" ELSE "done"
    /\ UNCHANGED << path, video_files, idx, output_path >>
    /\ UNCHANGED << input_file, output_file, degrees, ffmpeg, rotator, fh, result >>

\* process_path, directory branch: the for loop takes the next file name
NextFile ==
    /\ pc = "next"
    /\ idx' = idx + 1
    /\ input_file' = video_files[idx + 1]
    /\ output_path' = OutputPath(create_rotated_directory(BaseDir), video_files[idx + 1].name)
    /\ output_file' = NoFile
    /\ rotator' = "none"
    /\ fh' = ClosedHandle
    /\ result' = "none"
    /\ pc' = "probe"
    /\ UNCHANGED << path, video_files, finished, degrees, ffmpeg, printed >>

Next ==
    \/ ProcessPath
    \/ ProcessDir
    \/ CheckForFFmpeg
    \/ GetRotator
    \/ MP4Copy
    \/ MP4CopyFails
    \/ MP4Ftyp
    \/ MP4Top
    \/ MP4Moov
    \/ MP4Trak
    \/ MP4Tkhd
    \/ MP4Return
    \/ MP4Except
    \/ FFMpegUnsupported
    \/ FFMpegSucceeds
    \/ FFMpegFails
    \/ FFMpegRaises
    \/ CopyRotate
    \/ CopyRotateFails
    \/ Report
    \/ NextFile

Spec == Init /\ [][Next]_vars

\* the interpreter keeps running the program: some step is taken while one is possible
FairSpec == Init /\ [][Next]_vars /\ WF_vars(Next)

(***************************************************************************)
(* Properties.                                                             *)
(*                                                                         *)
(* The matrix field of a track header, as the container format lays it     *)
(* out: 36 bytes at content offset 52 (version 0) or 60 (version 1), nine  *)
(* big-endian 32-bit slots in the row-major order a b u c d v x y w.       *)
(***************************************************************************)
FieldStart(data, tkhd_pos) == tkhd_pos + 8 + (IF data[tkhd_pos + 9] = 1 THEN 60 ELSE 52)

\* file offsets of the 36 bytes of the matrix field
FieldOffsets(data, tkhd_pos) ==
    { FieldStart(data, tkhd_pos) + k : k \in 0..35 }

\* slot k (1..9, row-major a b u c d v x y w) of the matrix, as four bytes
Slot(data, tkhd_pos, k) ==
    SubSeq(data, FieldStart(data, tkhd_pos) + 4 * (k - 1) + 1,
                 FieldStart(data, tkhd_pos) + 4 * k)

One  == << 0, 1, 0, 0 >>
Zero == << 0, 0, 0, 0 >>
MinusOne == << 255, 255, 0, 0 >>

\* 16.16 big-endian bytes of the integers -1, 0, 1
Fixed(v) == CASE v = 1 -> One [] v = 0 -> Zero [] v = -1 -> MinusOne

CanonicalAngles == { "0", "90", "180", "270" }
TableAngles == { "90", "180", "270" }

\* the canonical (a, b, c, d) of each angle
Canonical(angle) ==
    CASE angle = "0"   -> << 1, 0, 0, 1 >>
      [] angle = "90"  -> << 0, 1, -1, 0 >>
      [] angle = "180" -> << -1, 0, 0, -1 >>
      [] angle = "270" -> << 0, -1, 1, 0 >>

JobOver == pc \in { "report", "done" }

\* the container patcher ran on the file and rotate returned True
PatcherSucceeded == JobOver /\ rotator = "MP4Rotator" /\ result = "True"

\* C1: for a well-formed single-track file and a canonical angle, after
\* MP4Rotator.rotate succeeds the output has the length of the input and every
\* byte outside the 36-byte matrix field of the tkhd equals the input's byte.
C1_OnlyMatrixFieldDiffers ==
    (PatcherSucceeded /\ input_file.kind = "single" /\ degrees \in CanonicalAngles) =>
        /\ output_file.exists
        /\ Len(output_file.data) = Len(input_file.data)
        /\ \A i \in 1..Len(input_file.data) :
              (i - 1) \notin FieldOffsets(input_file.data, input_file.tkhds[1])
                 => output_file.data[i] = input_file.data[i]

\* C1 witness: a version-1 single-track file was patched and bytes changed
C1_Witness ==
    /\ PatcherSucceeded /\ input_file.kind = "single" /\ degrees = "90"
    /\ input_file.data[input_file.tkhds[1] + 9] = 1
    /\ output_file.data # input_file.data

\* C2: after patching a single-track file for a canonical angle, the slots
\* a, b, c, d read in row-major order hold the angle's canonical values in 16.16.
C2_CanonicalValuesInRowMajorSlots ==
    (PatcherSucceeded /\ input_file.kind = "single" /\ degrees \in CanonicalAngles) =>
        LET t == input_file.tkhds[1]
            m == Canonical(degrees)
        IN /\ Slot(output_file.data, t, 1) = Fixed(m[1])
           /\ Slot(output_file.data, t, 2) = Fixed(m[2])
           /\ Slot(output_file.data, t, 4) = Fixed(m[3])
           /\ Slot(output_file.data, t, 5) = Fixed(m[4])

\* C3: after a successful matrix patch the slots u, v, x, y hold 0 and w holds
\* 0x00010000, whatever they held before.
C3_OtherSlotsIdentity ==
    (PatcherSucceeded /\ input_file.kind = "single" /\ fh.calls # << >>) =>
        LET t == input_file.tkhds[1]
        IN /\ Slot(output_file.data, t, 3) = Zero
           /\ Slot(output_file.data, t, 6) = Zero
           /\ Slot(output_file.data, t, 7) = Zero
           /\ Slot(output_file.data, t, 8) = Zero
           /\ Slot(output_file.data, t, 9) = One

\* the minimal container: ftyp + moov{trak{tkhd(version 0, identity matrix)}}
MinimalContainer == Container(1, 0, 0, IdentityMatrix, FALSE)

\* C4: the minimal container rotated 180 degrees without the re-encode tool
\* gives the input with slots a and d changed to 0xFFFF0000 and nothing else.
C4_Minimal180 ==
    (JobOver /\ ~ffmpeg /\ input_file.name = NameMp4 /\ degrees = "180"
       /\ input_file.data = MinimalContainer.data /\ result = "True") =>
        LET t == MinimalContainer.tkhds[1]
            f == FieldStart(input_file.data, t)
        IN output_file.data =
             WriteBytes(WriteBytes(input_file.data, f, MinusOne), f + 16, MinusOne)

\* C5: patching with t1 and then with t2 gives the bytes of patching with t2
\* alone, for all table angles t1, t2 and every patchable file.
C5_SecondPatchOverwrites ==
    (PatcherSucceeded /\ pc = "done" /\ degrees \in TableAngles) =>
        \A t2 \in TableAngles :
            Patched(output_file.data, t2) = Patched(input_file.data, t2)

\* C5 witness: a file patched for 90 degrees whose second patch for 180 changes it
C5_Witness ==
    /\ PatcherSucceeded /\ pc = "done" /\ degrees = "90"
    /\ output_file.data # input_file.data
    /\ Patched(output_file.data, "180") # output_file.data

\* C6: the first byte each patch writes is at tkhd content offset 52 when the
\* version byte is 0 and 60 when it is 1, whatever the 24 flag bits are.
C6_FirstWrittenOffset ==
    \A k \in 1..Len(fh.calls) :
        LET c == fh.calls[k]
            version_byte == input_file.data[c.atom_pos + 9]
        IN fh.wrote[c.first] = (c.atom_pos + 8) + (IF version_byte = 0 THEN 52 ELSE 60)

\* C6 witness: a version-1 track header with flag bits set was patched
C6_Witness ==
    /\ Len(fh.calls) > 0
    /\ SubSeq(input_file.data, fh.calls[1].atom_pos + 9, fh.calls[1].atom_pos + 12)
          = << 1, 0, 0, 7 >>
    /\ fh.wrote[1] = fh.calls[1].atom_pos + 68

\* the bytes of the k-th tkhd box of a fixture (header and content)
TkhdBoxBytes(data, in, k) ==
    LET t == in.tkhds[k]
    IN SubSeq(data, t + 1, t + UnpackU32(ReadBytes(in.data, t, 4)))

C8_SelectionByFlagAndExtension ==
    rotator # "none" =>
        /\ ffmpeg => rotator = "FFMpegRotator"
        /\ (~ffmpeg /\ input_file.name \in { NameMp4, NameMOV, NameM4v })
              => rotator = "MP4Rotator"
        /\ (~ffmpeg /\ input_file.name \in { NameMkv, NameMp4Avi })
              => rotator = "CopyRotator"

\* C8 witness: an upper-case .MOV name got the patcher, and a name whose last
\* suffix is .avi would get the copy
C8_Witness ==
    /\ rotator = "MP4Rotator" /\ input_file.name = NameMOV
    /\ get_rotator_for_file(FALSE, NameMp4Avi) = "CopyRotator"

\* C9 as stated: without the tool, a patchable file gets the patcher only for
\* a canonical angle and the copy backend otherwise.
C9_PatcherOnlyForCanonicalAngle ==
    (rotator # "none" /\ ~ffmpeg /\ input_file.name \in { NameMp4, NameMOV, NameM4v }) =>
        IF degrees \in CanonicalAngles THEN rotator = "MP4Rotator"
        ELSE rotator = "CopyRotator"

\* what the current job has printed: the messages after the previous job's report
JobPrinted ==
    SubSeq(printed, (IF idx >= 2 THEN finished[idx - 1].printed ELSE 0) + 1, Len(printed))

\* C9 amended: without the tool, a patchable file gets the patcher for every
\* requested angle; the copy backend is never chosen because of the angle.
C9_PatcherForEveryAngle ==
    (rotator # "none" /\ ~ffmpeg /\ input_file.name \in { NameMp4, NameMOV, NameM4v }) =>
        /\ rotator = "MP4Rotator"
        /\ \A k \in 1..Len(JobPrinted) : JobPrinted[k] # "Warning: Cannot rotate without FFmpeg"

\* C9 witness: the patcher was selected for the angle 45
C9_Witness ==
    /\ rotator = "MP4Rotator" /\ degrees = "45" /\ input_file.name = NameM4v

\* C10: whenever rotate returns False, no output file of the job is left.
C10_NoOutputAfterFailure ==
    (JobOver /\ result = "False") => ~output_file.exists

\* the entry of the invoked path that the current input file was taken from
EntriesNamed(name) == { k \in 1..Len(path.entries) : path.entries[k].name = name }

\* C11: the input file is never written: at every point of every job, whatever
\* the backend, the angle and the outcome, the input on disk is the file that
\* was enumerated, and so is the input of every reported job; the bytes the
\* patcher writes are bytes of the output copy.
C11_InputNeverWritten ==
    /\ idx >= 1 => \E k \in EntriesNamed(input_file.name) : path.entries[k] = input_file
    /\ \A j \in 1..Len(finished) :
          \E k \in EntriesNamed(finished[j].input.name) : path.entries[k] = finished[j].input
    /\ (pc = "walk" /\ fh.at # "raise") => output_file.data = fh.data

\* C11 witness: a directory job over, the patcher has written matrix bytes and
\* the output copy differs from the input
C11_Witness ==
    /\ path.isdir /\ pc = "done" /\ rotator = "MP4Rotator"
    /\ fh.wrote # << >>
    /\ output_file.exists /\ output_file.data # input_file.data

\* C12: in directory mode every enumerated video file is reported and the batch
\* eventually completes: process_path reaches its end with one report per file.
C12_BatchCompletes ==
    path.isdir => <>(pc = "done" /\ Len(finished) = Len(video_files))

\* C13: on a file that starts with ftyp and holds no tkhd (no moov, no trak,
\* or a trak without tkhd) the patcher's rotate returns False, for an angle of
\* the table.
C13_NoTrackHeaderFails ==
    (JobOver /\ rotator = "MP4Rotator" /\ degrees \in TableAngles
        /\ input_file.kind = "trackless") => result = "False"

\* C14: on a file with a box that declares more bytes than its parent has left
\* the patcher's rotate returns False and no matrix byte has been written, for
\* an angle of the table.
C14_OversizedBoxFails ==
    (JobOver /\ rotator = "MP4Rotator" /\ degrees \in TableAngles
        /\ input_file.kind = "oversized") =>
        /\ result = "False"
        /\ fh.wrote = << >>

\* C15: on a file where fewer than 8 bytes remain for a box header the
\* patcher's rotate returns False, for an angle of the table.
C15_IncompleteHeaderFails ==
    (JobOver /\ rotator = "MP4Rotator" /\ degrees \in TableAngles
        /\ input_file.kind = "truncated") => result = "False"

\* C16: for an angle outside the canonical table the patcher's rotate returns
\* False, no matrix byte has been written and no output is left.
C16_UnsupportedAngleFails ==
    (JobOver /\ rotator = "MP4Rotator" /\ degrees \notin CanonicalAngles) =>
        /\ result = "False"
        /\ fh.wrote = << >>
        /\ ~output_file.exists

\* the first eight bytes are a complete header whose type is not ftyp
FirstBoxNotFtyp(data) == Len(data) >= 8 /\ SubSeq(data, 5, 8) # TagFtyp

\* C17: when the first box of the file is not ftyp the patcher fails before any
\* box is walked: no loop of the walk is entered, no byte is patched, rotate
\* returns False and the provisional output is deleted.
C17_MissingFtypFailsBeforeWalk ==
    (rotator = "MP4Rotator" /\ FirstBoxNotFtyp(input_file.data)) =>
        /\ fh.at \notin { "top", "moov", "trak", "tkhd", "ret" }
        /\ fh.wrote = << >> /\ fh.calls = << >>
        /\ (pc = "walk" /\ fh.at = "ftyp") => output_file.data = input_file.data
        /\ JobOver => (result = "False" /\ ~output_file.exists)

\* C17 witness: the copy was made, the ftyp check raised, and the job is over
C17_Witness ==
    /\ JobOver /\ rotator = "MP4Rotator" /\ FirstBoxNotFtyp(input_file.data)
    /\ fh.errors = << "ValueError: missing ftyp" >>
    /\ result = "False" /\ ~output_file.exists

\* the output path out lies in the directory Rotated next to the input called
\* name, is called rotated_ followed by that name, and is not the input's path
WellPlaced(name, out) ==
    /\ Len(out) = Len(BaseDir) + 2
    /\ SubSeq(out, 1, Len(BaseDir)) = BaseDir
    /\ out[Len(BaseDir) + 1] = DirRotated
    /\ SubSeq(out[Len(out)], 1, Len(RotatedPrefix)) = RotatedPrefix
    /\ SubSeq(out[Len(out)], Len(RotatedPrefix) + 1, Len(out[Len(out)])) = name
    /\ out # PathJoin(BaseDir, name)

\* C18: every input gets one output path: in the directory Rotated next to the
\* input, named rotated_ plus the unchanged file name with its extension; the
\* output path is never the input path, and two distinct inputs of a batch
\* never get the same output path.
C18_OneOutputPathPerInput ==
    /\ idx >= 1 => WellPlaced(input_file.name, output_path)
    /\ \A j \in 1..Len(finished) : WellPlaced(finished[j].input.name, finished[j].output_path)
    /\ \A i, j \in 1..Len(finished) :
          finished[i].input.name # finished[j].input.name
             => finished[i].output_path # finished[j].output_path

\* C18 witness: a batch of two distinct video files has been reported
C18_Witness ==
    /\ path.isdir /\ pc = "done" /\ Len(finished) = 2
    /\ finished[1].input.name # finished[2].input.name

\* C19: a box whose size field is 1 makes the walk fail: the walker is never
\* positioned at the offset that follows from that size, and rotate does not
\* return True.
C19_SizeOneFailsWalk ==
    (rotator = "MP4Rotator" /\ fh.top_size = 1) =>
        /\ ~(fh.at = "top" /\ fh.pos = fh.top_pos + 1)
        /\ JobOver => result = "False"

\* C20: a box whose size field is 0 extends to the end of its parent: a moov
\* of size 0 is walked up to the end of the file, a trak of size 0 up to the
\* end of its moov.
C20_SizeZeroExtendsToParentEnd ==
    /\ (pc = "walk" /\ fh.at = "moov" /\ fh.top_size = 0) => fh.moov_end = Len(fh.data)
    /\ (pc = "walk" /\ fh.at = "trak" /\ fh.moov_atom_size = 0) => fh.trak_end = fh.moov_end

\* the phase of a job: 1 probing the engine, 2 selecting the backend,
\* 3 executing it, 4 done or failed (0: no job started)
PhaseOf(p) ==
    CASE p = "start" -> 0
      [] p = "probe" -> 1
      [] p = "select" -> 2
      [] p \in { "rotate", "walk" } -> 3
      [] OTHER -> 4

\* what a backend leaves in the 'by' mark of an output file it wrote
MarksOf(r) ==
    IF r = "FFMpegRotator" THEN { "ffmpeg", "ffmpeg-partial" }
    ELSE IF r \in { "MP4Rotator", "CopyRotator" } THEN { "copy2" }
    ELSE { }

\* C21: each job goes through probe, select, execute and then done or failed,
\* in that order; the backend is selected once per job, in the select phase,
\* before the output file is touched; the output is touched only during
\* execution, by the selected backend, and the backend does not change once
\* execution has begun, also when it fails.
C21_PhasesInOrder ==
    [][ /\ \/ PhaseOf(pc') \in { PhaseOf(pc), PhaseOf(pc) + 1 }
           \/ pc = "next" /\ pc' = "probe"
           \/ pc = "start" /\ pc' = "done"
        /\ rotator' # rotator =>
              \/ pc = "select" /\ rotator = "none" /\ PhaseOf(pc') = 3
                    /\ output_file = NoFile /\ output_file' = NoFile
              \/ pc = "next" /\ rotator' = "none"
        /\ output_file' # output_file =>
              \/ /\ PhaseOf(pc) = 3
                 /\ rotator # "none" /\ rotator' = rotator
                 /\ output_file'.exists => output_file'.by \in MarksOf(rotator)
              \/ pc = "next" /\ output_file' = NoFile
      ]_vars

\* C21 witness: in a batch the first job failed during execution and the
\* second job has its backend selected
C21_Witness ==
    /\ path.isdir /\ idx = 2 /\ rotator # "none"
    /\ finished[1].result = "False"

\* C22: every box the walker enumerates or descends into lies inside the range
\* of its parent: the moov inside the file, the trak inside its moov, the
\* child of a trak inside the trak; the trak loop never reads a child header,
\* and never patches a tkhd, at an offset at or beyond the end of the moov.
C22_BoxesInsideParent ==
    pc = "walk" =>
        /\ fh.at = "moov" => fh.moov_end <= Len(input_file.data)
        /\ fh.at \in { "trak", "tkhd" } => fh.trak_end <= fh.moov_end
        /\ (fh.at = "trak" /\ fh.pos < fh.trak_end) => fh.pos < fh.moov_end
        /\ fh.at = "tkhd" =>
              /\ fh.trak_atom_pos < fh.moov_end
              /\ fh.trak_atom_pos + fh.trak_atom_size <= fh.trak_end

\* C23: when the copy backend ran and its copy succeeded, the output is
\* byte-identical to the input, whatever the angle; rotate returned True, the
\* job is reported as rotated successfully, and the warning that the file is
\* copied without rotation has been printed.
C23_CopyBackendCopiesUnchanged ==
    (JobOver /\ rotator = "CopyRotator" /\ (output_file.exists \/ result = "True")) =>
        /\ output_file.exists
        /\ output_file.data = input_file.data
        /\ result = "True"
        /\ \E k \in 1..Len(JobPrinted) : JobPrinted[k] = "Warning: Cannot rotate without FFmpeg"
        /\ \E k \in 1..Len(JobPrinted) : JobPrinted[k] = "Note: copied but not rotated"
        /\ pc = "done" => printed[Len(printed)] = "Successfully rotated"

\* C23 witness: the copy backend finished a job for an angle outside every table
C23_Witness ==
    /\ pc = "done" /\ rotator = "CopyRotator" /\ degrees = "45"
    /\ result = "True" /\ output_file.exists /\ Len(output_file.data) > 0

\* C24: the walk always makes progress: whenever one of its three loops is
\* about to read a header, the read position is beyond the start of the box
\* that loop read before.
C24_ReadPositionAdvances ==
    pc = "walk" =>
        /\ fh.at = "top" => fh.pos > fh.top_pos
        /\ fh.at = "moov" => fh.pos > fh.moov_atom_pos
        /\ fh.at = "trak" => fh.pos > fh.trak_atom_pos

\* the size field of the box at offset atom_pos
SizeFieldAt(data, atom_pos) == UnpackU32(SubSeq(data, atom_pos + 1, atom_pos + 4))

\* the offsets written by the k-th call of _modify_tkhd_atom
WrittenBy(k) ==
    { fh.wrote[i] : i \in fh.calls[k].first ..
                          (IF k < Len(fh.calls) THEN fh.calls[k + 1].first - 1
                           ELSE Len(fh.wrote)) }

\* C25: every byte the patcher writes lies inside the declared range of the
\* tkhd being patched and inside the original file length, and the output has
\* the length of the input.
C25_WritesInsideTkhd ==
    (rotator = "MP4Rotator" /\ (pc = "walk" \/ JobOver)) =>
        /\ \A k \in 1..Len(fh.calls) : \A off \in WrittenBy(k) :
              /\ fh.calls[k].atom_pos <= off
              /\ off < fh.calls[k].atom_pos + SizeFieldAt(input_file.data, fh.calls[k].atom_pos)
              /\ off < Len(input_file.data)
        /\ (pc = "walk" /\ fh.at # "raise") => Len(output_file.data) = Len(input_file.data)
        /\ result = "True" => Len(output_file.data) = Len(input_file.data)

====
